---- MODULE Spec2Model ----
(***************************************************************************)
(* A model of the note / scale algebra of backend/src/music/music.py and   *)
(* of the transposition helpers of backend/src/musicxml/notes.py.          *)
(*                                                                         *)
(* A music Note is the record [note_name, accidental]; note_name is the    *)
(* value of the NoteName enum member (A = 1 .. G = 7), accidental the      *)
(* value of the NoteAccidental enum member.  A call that can raise returns *)
(* Ok(value) or Raise.  The variables are the objects a caller holds: pc   *)
(* is the method called last and ret what it returned, note / other_note   *)
(* two Notes, self_scale / other_scale two Scales, notes a list argument   *)
(* and score the parts_list of a ScorePartwise; sample_file is the         *)
(* document of the file a score was loaded from.                           *)
(***************************************************************************)
EXTENDS Integers, Sequences, FiniteSets, TLC

VARIABLES pc, ret, note, other_note, self_scale, other_scale, notes, score,
          sample_file

vars == <<pc, ret, note, other_note, self_scale, other_scale, notes, score,
          sample_file>>

(***************************************************************************)
(* Program constants and enums                                             *)
(***************************************************************************)
NOTES_IN_SCALE == 7
NOTES_IN_OCTAVE == 12

NoteName_A == 1
NoteName_B == 2
NoteName_C == 3
NoteName_D == 4
NoteName_E == 5
NoteName_F == 6
NoteName_G == 7

NoteName == 1..7

FLAT == "flat"
NATURAL == "natural"
SHARP == "sharp"
DOUBLE_SHARP == "double-sharp"

NoteAccidental == {FLAT, NATURAL, SHARP, DOUBLE_SHARP}

IONIAN == 1
AEOLIAN == 2

ScaleType == {IONIAN, AEOLIAN}

\* Note.__init__ (note_type is never read by the algebra and is dropped by copy)
Note(note_name, accidental) == [note_name |-> note_name, accidental |-> accidental]

\* every Note the two enums can build
AllNotes == {Note(l, acc) : l \in NoteName, acc \in NoteAccidental}

\* raise ValueError(...) inside a function that returns a Note
ValueError == [error |-> "ValueError"]

\* a call that returned v / a call that raised ValueError
Ok(v) == [status |-> "ok", value |-> v]
Raise == [status |-> "ValueError"]

\* a call that returned the bool b, the int i, the list of ints r.value: the
\* field is named after the type, which keeps apart the results of different
\* methods that TLC cannot compare with each other
OkBool(b) == [status |-> "ok", bool |-> b]
OkInt(i) == [status |-> "ok", int |-> i]
OkInts(r) == IF r.status = "ok" THEN [status |-> "ok", ints |-> r.value] ELSE Raise

\* a call that returned the index or distance i, or raised where i is -1
OkIndex(i) == IF i = -1 THEN Raise ELSE OkInt(i)

\* the value of a variable no call has written yet (Python None)
None == [none |-> TRUE]

(***************************************************************************)
(* The constants of music/notes.py                                         *)
(***************************************************************************)
C == Note(NoteName_C, NATURAL)
C_SHARP == Note(NoteName_C, SHARP)
D == Note(NoteName_D, NATURAL)
D_SHARP == Note(NoteName_D, SHARP)
E == Note(NoteName_E, NATURAL)
F == Note(NoteName_F, NATURAL)
F_SHARP == Note(NoteName_F, SHARP)
G == Note(NoteName_G, NATURAL)
G_SHARP == Note(NoteName_G, SHARP)
A == Note(NoteName_A, NATURAL)
A_SHARP == Note(NoteName_A, SHARP)
B == Note(NoteName_B, NATURAL)
D_FLAT == Note(NoteName_D, FLAT)
E_FLAT == Note(NoteName_E, FLAT)
G_FLAT == Note(NoteName_G, FLAT)
A_FLAT == Note(NoteName_A, FLAT)
B_FLAT == Note(NoteName_B, FLAT)
C_DOUBLE_SHARP == Note(NoteName_C, DOUBLE_SHARP)
F_DOUBLE_SHARP == Note(NoteName_F, DOUBLE_SHARP)
E_SHARP == Note(NoteName_E, SHARP)
B_SHARP == Note(NoteName_B, SHARP)

(***************************************************************************)
(* class Note                                                              *)
(***************************************************************************)
\* a get_next_note_name that does not wrap from G to A
get_next_note_name_no_wrap(n) == n.note_name + 1

\* Note.get_next_note_name
get_next_note_name(n) == IF n.note_name < 7 THEN n.note_name + 1 ELSE 1

\* a get_root_note whose flat branch keeps the flat on the previous letter
get_root_note_flat_stays(n) ==
    IF n.accidental = NATURAL THEN Note(n.note_name, NATURAL)
    ELSE IF n.accidental = FLAT
         THEN Note(IF n.note_name > 1 THEN n.note_name - 1 ELSE 7, FLAT)
    ELSE IF n.accidental = SHARP
         THEN IF n.note_name \in {NoteName_B, NoteName_E}
              THEN Note(IF n.note_name < 7 THEN n.note_name + 1 ELSE 1, NATURAL)
              ELSE Note(n.note_name, SHARP)
    ELSE IF n.accidental = DOUBLE_SHARP
         THEN Note(IF n.note_name < 7 THEN n.note_name + 1 ELSE 1, NATURAL)
    ELSE ValueError

\* a get_root_note that forgets the B / E exception of the sharp branch
get_root_note_no_be(n) ==
    IF n.accidental = NATURAL THEN Note(n.note_name, NATURAL)
    ELSE IF n.accidental = FLAT
         THEN Note(IF n.note_name > 1 THEN n.note_name - 1 ELSE 7, SHARP)
    ELSE IF n.accidental = SHARP THEN Note(n.note_name, SHARP)
    ELSE IF n.accidental = DOUBLE_SHARP
         THEN Note(IF n.note_name < 7 THEN n.note_name + 1 ELSE 1, NATURAL)
    ELSE ValueError

\* Note.get_root_note
get_root_note(n) ==
    IF n.accidental = NATURAL THEN Note(n.note_name, NATURAL)
    ELSE IF n.accidental = FLAT
         THEN Note(IF n.note_name > 1 THEN n.note_name - 1 ELSE 7, SHARP)
    ELSE IF n.accidental = SHARP
         THEN IF n.note_name \in {NoteName_B, NoteName_E}
              THEN Note(IF n.note_name < 7 THEN n.note_name + 1 ELSE 1, NATURAL)
              ELSE Note(n.note_name, SHARP)
    ELSE IF n.accidental = DOUBLE_SHARP
         THEN Note(IF n.note_name < 7 THEN n.note_name + 1 ELSE 1, NATURAL)
    ELSE ValueError

\* Note.__eq__ : the roots of both sides, compared field by field
Note_eq(a, b) ==
    LET root_note == get_root_note(a)
        other_root_note == get_root_note(b)
    IN  /\ root_note.note_name = other_root_note.note_name
        /\ root_note.accidental = other_root_note.accidental

\* whether Note.__eq__ raises: get_root_note of either side raised
Note_eq_raises(a, b) == get_root_note(a) = ValueError \/ get_root_note(b) = ValueError

\* Note.__hash__ : hash((note_name, accidental)); the tuple stands for its
\* hash value (distinct tuples of enum members are taken to hash apart)
Note_hash(n) == <<n.note_name, n.accidental>>

\* Note.copy
Note_copy(n) == Note(n.note_name, n.accidental)

(***************************************************************************)
(* class NoteOrdering                                                      *)
(***************************************************************************)
\* NoteOrdering.get_alphabet_ordering : the Chromatic Ring
get_alphabet_ordering ==
    << A, A_SHARP, B, C, C_SHARP, D, D_SHARP, E, F, F_SHARP, G, G_SHARP >>

\* NoteOrdering.get_default_order : the Display Ring
get_default_order ==
    << C, C_SHARP, D_FLAT, D, D_SHARP, E_FLAT, E, F, F_SHARP, G_FLAT, G,
       G_SHARP, A_FLAT, A, A_SHARP, B_FLAT, B >>

\* the least of a set of positions, 0-based; -1 when there is none
first_of(hits) ==
    IF hits = {} THEN -1
    ELSE (CHOOSE i \in hits : \A j \in hits : i <= j) - 1

\* a list.index that finds its element by the literal fields alone
index_literal(order, x) ==
    IF x = ValueError THEN -1
    ELSE first_of({i \in 1..Len(order) : order[i] = x})

\* list.index(x) with 0-based result: the first position whose element == x
\* under Note.__eq__; -1 stands for the ValueError of a missing element, and
\* of a get_root_note that raised before its result could be looked up
index(order, x) ==
    IF x = ValueError THEN -1
    ELSE first_of({i \in 1..Len(order) : Note_eq(order[i], x)})

\* order[new_note_index] for new_note_index = (root_note_index + k) % len(order)
entry_after(order, root_note_index, k) ==
    IF root_note_index = -1 THEN ValueError
    ELSE order[((root_note_index + k) % Len(order)) + 1]

\* a get_note_n_steps_away that hands the note itself back for a whole turn
get_note_n_steps_away_in_shortcut(n, k, order) ==
    IF k % Len(order) = 0 THEN n
    ELSE entry_after(order, index(order, get_root_note(n)), k)

\* Note.get_note_n_steps_away (ordering given explicitly)
get_note_n_steps_away_in(n, k, order) ==
    entry_after(order, index(order, get_root_note(n)), k)

\* Note.get_note_n_steps_away with the default ordering
get_note_n_steps_away(n, k) == get_note_n_steps_away_in(n, k, get_alphabet_ordering)

\* (to_index - from_index) % length, the last line of get_steps_from; -1
\* stands for the ValueError of an index that was not found
steps_between(from_index, to_index, length) ==
    IF from_index = -1 \/ to_index = -1 THEN -1
    ELSE (to_index - from_index) % length

\* a get_steps_from that measures from the other note back to this one
get_steps_from_in_reversed(n, other, order) ==
    steps_between(index(order, get_root_note(other)), index(order, get_root_note(n)),
                  Len(order))

\* Note.get_steps_from (ordering given explicitly); -1 stands for ValueError
get_steps_from_in(n, other, order) ==
    steps_between(index(order, get_root_note(n)), index(order, get_root_note(other)),
                  Len(order))

\* Note.get_steps_from with the default ordering
get_steps_from(n, other) == get_steps_from_in(n, other, get_alphabet_ordering)

(***************************************************************************)
(* class Scale : the record [start_note, scale_type]                       *)
(***************************************************************************)
Scale(start_note, scale_type) == [start_note |-> start_note, scale_type |-> scale_type]

AllScales == {Scale(n, t) : n \in AllNotes, t \in ScaleType}

\* a get_scale_formula that falls back to the Ionian steps
get_scale_formula_fallback(scale) ==
    IF scale.scale_type = AEOLIAN THEN Ok(<<0, 2, 1, 2, 2, 1, 2>>)
    ELSE Ok(<<0, 2, 2, 1, 2, 2, 2>>)

\* a get_scale_formula whose steps close the octave
get_scale_formula_octave(scale) ==
    IF scale.scale_type = IONIAN THEN Ok(<<2, 2, 1, 2, 2, 2, 1>>)
    ELSE IF scale.scale_type = AEOLIAN THEN Ok(<<2, 1, 2, 2, 1, 2, 2>>)
    ELSE Raise

\* Scale.get_scale_formula
get_scale_formula(scale) ==
    IF scale.scale_type = IONIAN THEN Ok(<<0, 2, 2, 1, 2, 2, 2>>)
    ELSE IF scale.scale_type = AEOLIAN THEN Ok(<<0, 2, 1, 2, 2, 1, 2>>)
    ELSE Raise

\* sum(xs[:k]) of Python
RECURSIVE sum_prefix(_, _)
sum_prefix(xs, k) == IF k = 0 THEN 0 ELSE sum_prefix(xs, k - 1) + xs[k]

\* a get_scale_formula_cum_sum that sums the steps before each degree only
get_scale_formula_cum_sum_exclusive(scale) ==
    LET formula == get_scale_formula(scale)
    IN  IF formula.status # "ok" THEN Raise
        ELSE Ok([i \in 1..NOTES_IN_SCALE |-> sum_prefix(formula.value, i - 1)])

\* Scale.get_scale_formula_cum_sum
get_scale_formula_cum_sum(scale) ==
    LET formula == get_scale_formula(scale)
    IN  IF formula.status # "ok" THEN Raise
        ELSE Ok([i \in 1..NOTES_IN_SCALE |-> sum_prefix(formula.value, i)])

\* Scale.get_scale_note_ordering
get_scale_note_ordering(scale) ==
    [step \in 1..NOTES_IN_OCTAVE |-> get_note_n_steps_away(scale.start_note, step - 1)]

\* Scale.get_basic_scale
get_basic_scale(scale) ==
    LET cum_sum == get_scale_formula_cum_sum(scale)
    IN  IF cum_sum.status # "ok" THEN Raise
        ELSE Ok([i \in 1..NOTES_IN_SCALE |->
                    get_note_n_steps_away(scale.start_note, cum_sum.value[i])])

\* a loop body of get_scale that always keeps the naive note
spell_degree_naive(prev_note, curr_note) == curr_note

\* a loop body of get_scale without the two double-sharp continuations
spell_degree_no_double(prev_note, curr_note) ==
    LET should_be_note_name == get_next_note_name(prev_note)
    IN  IF curr_note.note_name = should_be_note_name THEN curr_note
        ELSE IF should_be_note_name < curr_note.note_name
             THEN Note(should_be_note_name, SHARP)
             ELSE Note(should_be_note_name, FLAT)

\* the body of the loop of Scale.get_scale: the Note appended after prev_note
\* when the naive note of this degree is curr_note
spell_degree(prev_note, curr_note) ==
    LET should_be_note_name == get_next_note_name(prev_note)
    IN  IF curr_note.note_name = should_be_note_name THEN curr_note
        ELSE IF should_be_note_name < curr_note.note_name
             THEN IF should_be_note_name = NoteName_F /\ Note_eq(prev_note, Note(NoteName_E, SHARP))
                  THEN Note(NoteName_F, DOUBLE_SHARP)
                  ELSE IF should_be_note_name = NoteName_C /\ Note_eq(prev_note, Note(NoteName_B, SHARP))
                  THEN Note(NoteName_C, DOUBLE_SHARP)
                  ELSE Note(should_be_note_name, SHARP)
             ELSE Note(should_be_note_name, FLAT)

\* the list `notes` of Scale.get_scale after the iterations 1..k of its loop
RECURSIVE get_scale_loop(_, _, _)
get_scale_loop(scale, basic_scale, k) ==
    IF k = 0 THEN <<Note_copy(scale.start_note)>>
    ELSE LET before == get_scale_loop(scale, basic_scale, k - 1)
         IN  Append(before, spell_degree(before[Len(before)], basic_scale[k + 1]))

\* Scale.get_scale
get_scale(scale) ==
    LET basic_scale == get_basic_scale(scale)
    IN  IF basic_scale.status # "ok" THEN Raise
        ELSE Ok(get_scale_loop(scale, basic_scale.value, NOTES_IN_SCALE - 1))

(***************************************************************************)
(* A Python dict keyed by Notes: the sequence of its entries in insertion  *)
(* order.  A key is found by its hash first and by __eq__ second.          *)
(***************************************************************************)
\* a dict that finds its keys by __eq__ alone
dict_slots_by_eq(d, k) == {i \in 1..Len(d) : Note_eq(d[i].key, k)}

\* the positions of d whose key the dict takes for k
dict_slots(d, k) ==
    {i \in 1..Len(d) : Note_hash(d[i].key) = Note_hash(k) /\ Note_eq(d[i].key, k)}

\* d[k] = v : an existing key keeps its place and its key object
dict_set(d, k, v) ==
    IF dict_slots(d, k) = {} THEN Append(d, [key |-> k, value |-> v])
    ELSE LET i == CHOOSE i \in dict_slots(d, k) : TRUE
         IN  [d EXCEPT ![i].value = v]

\* k in d
dict_has(d, k) == dict_slots(d, k) # {}

\* d[k] of a key the dict holds
dict_get(d, k) == d[CHOOSE i \in dict_slots(d, k) : TRUE].value

\* {keys[i]: values[i] for i in range(n)}
RECURSIVE dict_comprehension(_, _, _)
dict_comprehension(keys, values, n) ==
    IF n = 0 THEN <<>>
    ELSE dict_set(dict_comprehension(keys, values, n - 1), keys[n], values[n])

\* Scale.get_transpose
get_transpose(scale, other) ==
    IF scale.scale_type # other.scale_type THEN Raise
    ELSE LET self_scale_order == get_scale(scale)
             other_scale_order == get_scale(other)
         IN  IF self_scale_order.status # "ok" \/ other_scale_order.status # "ok"
             THEN Raise
             ELSE Ok(dict_comprehension(self_scale_order.value,
                                        other_scale_order.value, NOTES_IN_SCALE))

\* a transpose_notes_from without the check of the scale types
transpose_notes_from_unchecked(scale, original_scale, ns) ==
    Ok([i \in 1..Len(ns) |->
           get_note_n_steps_away(scale.start_note,
                                 get_steps_from(original_scale.start_note, ns[i]))])

\* Scale.transpose_notes_from
transpose_notes_from(scale, original_scale, ns) ==
    IF original_scale.scale_type # scale.scale_type THEN Raise
    ELSE Ok([i \in 1..Len(ns) |->
                LET steps_from_home_note == get_steps_from(original_scale.start_note, ns[i])
                IN  get_note_n_steps_away(scale.start_note, steps_from_home_note)])

(***************************************************************************)
(* class TransposerHelper (musicxml/notes.py) and the document objects it   *)
(* reads and writes.  An xml Note is [kind, step, accidental]: kind is the  *)
(* class of its first_position, step is first_position.step.  A Measure is  *)
(* [notes, attributes], attributes being None or [key_fifths]; a Part is    *)
(* [measures]; a ScorePartwise is its parts_list.                           *)
(***************************************************************************)
\* first_position.step of a Rest or Unpitched, which has no such attribute
NoStep == 0

\* Note(first_position=Pitch(step, ...), accidental=accidental)
XmlPitch(step, accidental) == [kind |-> "pitch", step |-> step, accidental |-> accidental]

\* Note(first_position=Rest()) : Note.__init__ turns a missing accidental into NATURAL
XmlRest == [kind |-> "rest", step |-> NoStep, accidental |-> NATURAL]

\* Note(first_position=Unpitched())
XmlUnpitched == [kind |-> "unpitched", step |-> NoStep, accidental |-> NATURAL]

\* Attributes(..., key_fifths, ...)
Attributes(key_fifths) == [key_fifths |-> key_fifths]

\* Measure(number, notes, attributes)
Measure(ns, attributes) == [notes |-> ns, attributes |-> attributes]

\* Part(ident, name, measures)
Part(measures) == [measures |-> measures]

\* ScorePartwise(parts_list)
ScorePartwise(parts_list) == [parts_list |-> parts_list]

\* Note.copy, with Pitch.copy / Rest.copy / Unpitched.copy of the first_position
XmlNote_copy(n) == [kind |-> n.kind, step |-> n.step, accidental |-> n.accidental]

\* Attributes.copy
Attributes_copy(a) == [key_fifths |-> a.key_fifths]

\* Measure.copy
Measure_copy(m) ==
    [notes |-> [i \in 1..Len(m.notes) |-> XmlNote_copy(m.notes[i])],
     attributes |-> IF m.attributes = None THEN None ELSE Attributes_copy(m.attributes)]

\* Part.copy
Part_copy(p) == [measures |-> [j \in 1..Len(p.measures) |-> Measure_copy(p.measures[j])]]

\* TransposerHelper.get_scale_from_score
get_scale_from_score(sc) ==
    LET key_fifths ==
            IF Len(sc) = 0 THEN 0
            ELSE IF Len(sc[1].measures) = 0 THEN 0
            ELSE IF sc[1].measures[1].attributes = None THEN 0
            ELSE sc[1].measures[1].attributes.key_fifths
        natural_order == get_default_order
    IN  Scale(natural_order[(key_fifths % Len(natural_order)) + 1], IONIAN)

\* TransposerHelper.get_scale_key_fifths
get_scale_key_fifths(scale) == index(get_default_order, scale.start_note)

\* the xml Notes whose first_position is a Pitch, in order
RECURSIVE pitched(_)
pitched(ns) ==
    IF ns = <<>> THEN <<>>
    ELSE IF ns[1].kind = "pitch" THEN <<ns[1]>> \o pitched(Tail(ns))
    ELSE pitched(Tail(ns))

\* TransposerHelper.convert_notes
convert_notes(ns) ==
    LET ps == pitched(ns)
    IN  [i \in 1..Len(ps) |-> Note(ps[i].step, ps[i].accidental)]

\* the end of transpose_measure: the copies of the notes, the first ones
\* overwritten position by position with new_musical_notes, and the attributes
\* with the key of the new scale
write_measure(measure, new_musical_notes, new_key_fifths) ==
    IF new_musical_notes.status # "ok" THEN Raise
    ELSE Ok([notes |->
                [i \in 1..Len(measure.notes) |->
                    IF i <= Len(new_musical_notes.value)
                    THEN [kind |-> measure.notes[i].kind,
                          step |-> new_musical_notes.value[i].note_name,
                          accidental |-> new_musical_notes.value[i].accidental]
                    ELSE XmlNote_copy(measure.notes[i])],
             attributes |->
                IF measure.attributes # None THEN Attributes(new_key_fifths) ELSE None])

\* TransposerHelper.transpose_measure
transpose_measure(measure, new_scale, original_scale) ==
    write_measure(measure,
                  transpose_notes_from(new_scale, original_scale, convert_notes(measure.notes)),
                  get_scale_key_fifths(new_scale))

\* transposed_measures.append(new_measure), unless a call has raised
append_measure(transposed_measures, new_measure) ==
    IF transposed_measures.status # "ok" \/ new_measure.status # "ok" THEN Raise
    ELSE Ok(Append(transposed_measures.value, new_measure.value))

\* the list transposed_measures of transpose_part after its loop has run over
\* the first k measures, or Raise when transpose_measure raised in one of them
RECURSIVE transposed_measures_upto(_, _, _, _)
transposed_measures_upto(part, new_scale, original_scale, k) ==
    IF k = 0 THEN Ok(<<>>)
    ELSE append_measure(transposed_measures_upto(part, new_scale, original_scale, k - 1),
                        transpose_measure(part.measures[k], new_scale, original_scale))

\* the end of transpose_part: part.measures = transposed_measures; return new_part
assign_and_return(part, new_part, transposed_measures) ==
    IF transposed_measures.status # "ok"
    THEN [status |-> "ValueError", part |-> part]
    ELSE [status |-> "ok", value |-> new_part,
          part |-> [part EXCEPT !.measures = transposed_measures.value]]

\* TransposerHelper.transpose_part : value is the Part returned, part is the
\* caller's Part object as the call leaves it
transpose_part(part, new_scale, original_scale) ==
    assign_and_return(part, Part_copy(part),
        transposed_measures_upto(part, new_scale, original_scale, Len(part.measures)))

\* transposed_parts.append(new_part) for the k-th part, unless a call has raised;
\* score is the caller's parts_list as the loop leaves it
append_part(before, k, new_part) ==
    IF new_part.status # "ok"
    THEN [status |-> "ValueError", score |-> before.score]
    ELSE [status |-> "ok",
          value |-> Append(before.value, new_part.value),
          score |-> [before.score EXCEPT ![k] = new_part.part]]

\* the loop of transpose_score over the first k parts: value is the list
\* transposed_parts
RECURSIVE transpose_score_loop(_, _, _, _)
transpose_score_loop(sc, new_scale, start_scale, k) ==
    IF k = 0 THEN [status |-> "ok", value |-> <<>>, score |-> sc]
    ELSE LET before == transpose_score_loop(sc, new_scale, start_scale, k - 1)
         IN  IF before.status # "ok" THEN before
             ELSE append_part(before, k,
                              transpose_part(before.score[k], new_scale, start_scale))

\* TransposerHelper.transpose_score : original_scale may be None
transpose_score(sc, new_scale, original_scale) ==
    LET start_scale == IF original_scale = None THEN get_scale_from_score(sc)
                       ELSE original_scale
    IN  transpose_score_loop(sc, new_scale, start_scale, Len(sc))

(***************************************************************************)
(* Inputs                                                                  *)
(***************************************************************************)
\* the list of tests/test_music.py, test_transpose_notes_from
TestNotes == <<C, G, C_SHARP>>

\* the lists of Notes a caller passes to transpose_notes_from: no Note, every
\* single Note, the list of the test and the 17 Notes of the Display Ring
NoteLists == {<<>>} \cup {<<n>> : n \in AllNotes} \cup {TestNotes, get_default_order}

\* the most notes of a Measure
MaxMeasureNotes == 2

RECURSIVE SeqsUpTo(_, _)
SeqsUpTo(S, n) ==
    IF n = 0 THEN {<<>>}
    ELSE LET shorter == SeqsUpTo(S, n - 1)
         IN  shorter \cup {Append(q, x) : q \in {r \in shorter : Len(r) = n - 1}, x \in S}

\* the xml Notes of the documents explored
XmlNotes == {XmlPitch(NoteName_C, NATURAL), XmlPitch(NoteName_E, FLAT), XmlRest, XmlUnpitched}

\* the attributes of a Measure: none, or a key signature read as fifths = 10
XmlAttributes == {None, Attributes(10)}

XmlMeasures == {Measure(ns, a) : ns \in SeqsUpTo(XmlNotes, MaxMeasureNotes), a \in XmlAttributes}

\* the measure and the part of tests/test_musicxml.py, TestScorePartwise.setUp
TestMeasure == Measure(<<XmlPitch(NoteName_C, SHARP)>>, None)
TestPart == Part(<<TestMeasure>>)

\* the parts explored: no measure, any one measure, any measure and the test's
XmlParts ==
    {Part(<<>>)} \cup {Part(<<m>>) : m \in XmlMeasures}
                 \cup {Part(<<m, TestMeasure>>) : m \in XmlMeasures}

\* the scores explored: every single part, and two parts with the test's part
XmlScores == {<<p>> : p \in XmlParts} \cup {<<TestPart, p>> : p \in XmlParts}

\* the scales a caller transposes a document to
XmlNewScales == {Scale(G, IONIAN), Scale(D_FLAT, IONIAN), Scale(A, AEOLIAN)}

\* the original_scale argument of transpose_score
XmlOriginalScales == {None, Scale(C, IONIAN)}

\* the largest step count a caller passes to get_note_n_steps_away
MaxSteps == 17

\* the step counts n of get_note_n_steps_away: more than one turn of either
\* ring, up and down
StepCounts == (0 - MaxSteps)..MaxSteps

\* the ordering a call works on: the Chromatic Ring (the default of a missing
\* argument) or the Display Ring
Orderings == {get_alphabet_ordering, get_default_order}

\* the largest key_fifths of the documents read for their key
MaxFifths == 16

\* the key_fifths of the documents read for their key
KeyFifths == (0 - MaxFifths)..MaxFifths

\* the documents read for their key: one part of one measure with a key, and
\* the documents without a key (no part, no measure, no attributes)
FifthsScores ==
    {<<Part(<<Measure(ns, Attributes(f))>>)>> :
        ns \in {<<>>, <<XmlPitch(NoteName_C, NATURAL)>>}, f \in KeyFifths}
    \cup {<<>>, <<Part(<<>>)>>, <<TestPart>>}

\* accidental values that are no member of NoteAccidental
InvalidAccidentals == {"flat-flat", "sharp-sharp"}

\* scale_type values that are no member of ScaleType
InvalidScaleTypes == {0, 3}

\* Notes a caller built with an accidental outside the enum, and two with one
\* of it
UncheckedNotes ==
    {Note(NoteName_C, acc) : acc \in InvalidAccidentals} \cup {C, B_FLAT}

\* Scales a caller built with a scale_type outside the enum, and two with one
\* of it
UncheckedScales ==
    {Scale(C, t) : t \in InvalidScaleTypes} \cup {Scale(C, IONIAN), Scale(A, AEOLIAN)}

(***************************************************************************)
(* Calls on Notes: a caller holds two Notes and calls one method           *)
(***************************************************************************)
InitNote ==
    /\ pc = "ready"
    /\ ret = None
    /\ note \in AllNotes
    /\ other_note \in AllNotes
    /\ self_scale = None
    /\ other_scale = None
    /\ notes = <<>>
    /\ score = <<>>
    /\ sample_file = <<>>

\* note.get_root_note()
GetRootNote ==
    /\ pc = "ready"
    /\ note # None
    /\ pc' = "get_root_note"
    /\ ret' = get_root_note(note)
    /\ UNCHANGED <<sample_file, note, other_note, self_scale, other_scale, notes, score>>

\* note == other_note
NoteEq ==
    /\ pc = "ready"
    /\ note # None /\ other_note # None
    /\ pc' = "eq"
    /\ ret' = IF Note_eq_raises(note, other_note) THEN Raise
              ELSE OkBool(Note_eq(note, other_note))
    /\ UNCHANGED <<sample_file, note, other_note, self_scale, other_scale, notes, score>>

\* hash(note), hash(other_note)
NoteHash ==
    /\ pc = "ready"
    /\ note # None /\ other_note # None
    /\ pc' = "hash"
    /\ ret' = [hash_note |-> Note_hash(note), hash_other_note |-> Note_hash(other_note)]
    /\ UNCHANGED <<sample_file, note, other_note, self_scale, other_scale, notes, score>>

\* note.get_next_note_name()
GetNextNoteName ==
    /\ pc = "ready"
    /\ note # None
    /\ pc' = "get_next_note_name"
    /\ ret' = OkInt(get_next_note_name(note))
    /\ UNCHANGED <<sample_file, note, other_note, self_scale, other_scale, notes, score>>

\* note.get_note_n_steps_away(n, ordering): notes keeps the ordering the call
\* worked on, ret the n it was given and the value it returned
GetNoteNStepsAway ==
    /\ pc = "ready"
    /\ note # None
    /\ \E n \in StepCounts, order \in Orderings :
        /\ notes' = order
        /\ ret' = [n |-> n, value |-> get_note_n_steps_away_in(note, n, order)]
    /\ pc' = "get_note_n_steps_away"
    /\ UNCHANGED <<sample_file, note, other_note, self_scale, other_scale, score>>

\* note.get_steps_from(other_note, ordering): notes keeps the ordering
GetStepsFrom ==
    /\ pc = "ready"
    /\ note # None /\ other_note # None
    /\ \E order \in Orderings :
        /\ notes' = order
        /\ ret' = OkIndex(get_steps_from_in(note, other_note, order))
    /\ pc' = "get_steps_from"
    /\ UNCHANGED <<sample_file, note, other_note, self_scale, other_scale, score>>

\* TransposerHelper.get_scale_key_fifths(MusicalScale(note))
GetNoteKeyFifths ==
    /\ pc = "ready"
    /\ note # None
    /\ self_scale' = Scale(note, IONIAN)
    /\ pc' = "get_scale_key_fifths"
    /\ ret' = OkIndex(get_scale_key_fifths(Scale(note, IONIAN)))
    /\ UNCHANGED <<sample_file, note, other_note, other_scale, notes, score>>

NextNote ==
    \/ GetRootNote
    \/ NoteEq
    \/ NoteHash
    \/ GetNextNoteName
    \/ GetNoteNStepsAway
    \/ GetStepsFrom
    \/ GetNoteKeyFifths

SpecNote == InitNote /\ [][NextNote]_vars

(***************************************************************************)
(* Calls on one Scale                                                      *)
(***************************************************************************)
InitScale ==
    /\ pc = "ready"
    /\ ret = None
    /\ note = None
    /\ other_note = None
    /\ self_scale \in AllScales
    /\ other_scale = None
    /\ notes = <<>>
    /\ score = <<>>
    /\ sample_file = <<>>

\* self_scale.get_basic_scale()
GetBasicScale ==
    /\ pc = "ready"
    /\ self_scale # None
    /\ pc' = "get_basic_scale"
    /\ ret' = get_basic_scale(self_scale)
    /\ UNCHANGED <<sample_file, note, other_note, self_scale, other_scale, notes, score>>

\* self_scale.get_scale()
GetScale ==
    /\ pc = "ready"
    /\ self_scale # None
    /\ pc' = "get_scale"
    /\ ret' = get_scale(self_scale)
    /\ UNCHANGED <<sample_file, note, other_note, self_scale, other_scale, notes, score>>

\* self_scale.get_scale_formula()
GetScaleFormula ==
    /\ pc = "ready"
    /\ self_scale # None
    /\ pc' = "get_scale_formula"
    /\ ret' = OkInts(get_scale_formula(self_scale))
    /\ UNCHANGED <<sample_file, note, other_note, self_scale, other_scale, notes, score>>

\* self_scale.get_scale_formula_cum_sum()
GetScaleFormulaCumSum ==
    /\ pc = "ready"
    /\ self_scale # None
    /\ pc' = "get_scale_formula_cum_sum"
    /\ ret' = OkInts(get_scale_formula_cum_sum(self_scale))
    /\ UNCHANGED <<sample_file, note, other_note, self_scale, other_scale, notes, score>>

NextScale == GetBasicScale \/ GetScale \/ GetScaleFormula \/ GetScaleFormulaCumSum

SpecScale == InitScale /\ [][NextScale]_vars

(***************************************************************************)
(* Calls on two Scales                                                     *)
(***************************************************************************)
InitTranspose ==
    /\ pc = "ready"
    /\ ret = None
    /\ note = None
    /\ other_note = None
    /\ self_scale \in AllScales
    /\ other_scale \in AllScales
    /\ notes = <<>>
    /\ score = <<>>
    /\ sample_file = <<>>

\* self_scale.get_transpose(other_scale)
GetTranspose ==
    /\ pc = "ready"
    /\ self_scale # None /\ other_scale # None
    /\ pc' = "get_transpose"
    /\ ret' = get_transpose(self_scale, other_scale)
    /\ UNCHANGED <<sample_file, note, other_note, self_scale, other_scale, notes, score>>

\* self_scale.transpose_notes_from(other_scale, ns)
TransposeNotesFrom ==
    /\ pc = "ready"
    /\ self_scale # None /\ other_scale # None
    /\ \E ns \in NoteLists :
        /\ notes' = ns
        /\ ret' = transpose_notes_from(self_scale, other_scale, ns)
    /\ pc' = "transpose_notes_from"
    /\ UNCHANGED <<sample_file, note, other_note, self_scale, other_scale, score>>

NextTranspose == GetTranspose \/ TransposeNotesFrom

SpecTranspose == InitTranspose /\ [][NextTranspose]_vars

(***************************************************************************)
(* Calls on a document                                                     *)
(***************************************************************************)
InitXml ==
    /\ pc = "ready"
    /\ ret = None
    /\ note = None
    /\ other_note = None
    /\ self_scale = None
    /\ other_scale \in XmlOriginalScales
    /\ notes = <<>>
    /\ score \in XmlScores
    /\ sample_file = <<>>

\* TransposerHelper.transpose_part(score.parts_list[p], new_scale, original_scale);
\* notes keeps <<p>>, the position of the part the caller handed over
TransposePart ==
    /\ pc = "ready"
    /\ score # <<>>
    /\ \E p \in 1..Len(score), new_scale \in XmlNewScales :
        LET original_scale == IF other_scale = None THEN get_scale_from_score(score)
                              ELSE other_scale
            r == transpose_part(score[p], new_scale, original_scale)
        IN  /\ self_scale' = new_scale
            /\ notes' = <<p>>
            /\ score' = [score EXCEPT ![p] = r.part]
            /\ ret' = IF r.status = "ok" THEN Ok(r.value) ELSE Raise
    /\ pc' = "transpose_part"
    /\ UNCHANGED <<sample_file, note, other_note, other_scale>>

\* TransposerHelper.transpose_score(score, new_scale, original_scale)
TransposeScore ==
    /\ pc = "ready"
    /\ score # <<>>
    /\ \E new_scale \in XmlNewScales :
        LET r == transpose_score(score, new_scale, other_scale)
        IN  /\ self_scale' = new_scale
            /\ score' = r.score
            /\ ret' = IF r.status = "ok" THEN Ok(ScorePartwise(r.value)) ELSE Raise
    /\ pc' = "transpose_score"
    /\ UNCHANGED <<sample_file, note, other_note, other_scale, notes>>

\* TransposerHelper.transpose_measure(score.parts_list[p].measures[j], new_scale,
\* original_scale); notes keeps <<p, j>>, the place of the measure handed over
TransposeMeasure ==
    /\ pc = "ready"
    /\ \E p \in 1..Len(score), new_scale \in XmlNewScales :
        \E j \in 1..Len(score[p].measures) :
            /\ self_scale' = new_scale
            /\ notes' = <<p, j>>
            /\ ret' = transpose_measure(score[p].measures[j], new_scale,
                                        IF other_scale = None
                                        THEN get_scale_from_score(score)
                                        ELSE other_scale)
    /\ pc' = "transpose_measure"
    /\ UNCHANGED <<sample_file, note, other_note, other_scale, score>>

NextXml == TransposePart \/ TransposeScore \/ TransposeMeasure

SpecXml == InitXml /\ [][NextXml]_vars

(***************************************************************************)
(* Reading the key of a document and writing it back                       *)
(***************************************************************************)
InitFifths ==
    /\ pc = "ready"
    /\ ret = None
    /\ note = None
    /\ other_note = None
    /\ self_scale = None
    /\ other_scale = None
    /\ notes = <<>>
    /\ score \in FifthsScores
    /\ sample_file = <<>>

\* self_scale = TransposerHelper.get_scale_from_score(score)
GetScaleFromScore ==
    /\ pc = "ready"
    /\ pc' = "get_scale_from_score"
    /\ self_scale' = get_scale_from_score(score)
    /\ ret' = get_scale_from_score(score)
    /\ UNCHANGED <<sample_file, note, other_note, other_scale, notes, score>>

\* TransposerHelper.get_scale_key_fifths(self_scale), of the scale read before
GetScaleKeyFifths ==
    /\ pc = "get_scale_from_score"
    /\ pc' = "get_scale_key_fifths"
    /\ ret' = OkIndex(get_scale_key_fifths(self_scale))
    /\ UNCHANGED <<sample_file, note, other_note, self_scale, other_scale, notes, score>>

NextFifths == GetScaleFromScore \/ GetScaleKeyFifths

SpecFifths == InitFifths /\ [][NextFifths]_vars

(***************************************************************************)
(* Calls of a caller that passes values outside the enums                  *)
(***************************************************************************)
InitUnchecked ==
    /\ pc = "ready"
    /\ ret = None
    /\ note \in UncheckedNotes
    /\ other_note \in UncheckedNotes
    /\ self_scale \in UncheckedScales
    /\ other_scale \in UncheckedScales
    /\ notes = <<>>
    /\ score = <<>>
    /\ sample_file = <<>>

NextUnchecked ==
    \/ GetRootNote
    \/ NoteEq
    \/ GetNoteNStepsAway
    \/ GetStepsFrom
    \/ GetScaleFormula
    \/ GetScaleFormulaCumSum
    \/ GetBasicScale
    \/ GetScale
    \/ GetTranspose

SpecUnchecked == InitUnchecked /\ [][NextUnchecked]_vars

(***************************************************************************)
(* build_twinkles: one loaded score, transposed to the key of every Note   *)
(* of the Display Ring in turn                                             *)
(***************************************************************************)
\* original_score = ScorePartwise.from_musicxml(file); original_scale =
\* get_scale_from_score(original_score); notes is what the loop has yet to
\* run over
InitTwinkles ==
    /\ pc = "ready"
    /\ ret = None
    /\ note = None
    /\ other_note = None
    /\ self_scale = None
    /\ score \in XmlScores
    /\ sample_file = score
    /\ other_scale = get_scale_from_score(score)
    /\ notes = get_default_order

\* one turn of the loop: new_score = transpose_score(original_score,
\* MusicalScale(note), original_scale)
BuildTwinkles ==
    /\ pc \in {"ready", "build_twinkles"}
    /\ notes # <<>>
    /\ self_scale' = Scale(Head(notes), IONIAN)
    /\ score' = transpose_score(score, Scale(Head(notes), IONIAN), other_scale).score
    /\ ret' = Ok(ScorePartwise(
                    transpose_score(score, Scale(Head(notes), IONIAN), other_scale).value))
    /\ notes' = Tail(notes)
    /\ pc' = "build_twinkles"
    /\ UNCHANGED <<sample_file, note, other_note, other_scale>>

NextTwinkles == BuildTwinkles

SpecTwinkles == InitTwinkles /\ [][NextTwinkles]_vars

(***************************************************************************)
(* Every caller that passes members of the enums                           *)
(***************************************************************************)
Init ==
    InitNote \/ InitScale \/ InitTranspose \/ InitXml \/ InitFifths \/ InitTwinkles

Next ==
    NextNote \/ NextScale \/ NextTranspose \/ NextXml \/ NextFifths \/ NextTwinkles

Spec == Init /\ [][Next]_vars

(***************************************************************************)
(* Properties of Scale.get_scale                                           *)
(***************************************************************************)
\* C1: for every start Note and Mode, get_scale returns 7 Notes whose letters
\* are the 7 letter names, each once; degree 0 has the letter of the start
\* Note and every later degree the cyclic successor of the letter before it.
ScaleLettersInCyclicOrder ==
    pc = "get_scale" =>
        /\ ret.status = "ok"
        /\ Len(ret.value) = 7
        /\ \A k \in 1..7 : ret.value[k] \in AllNotes
        /\ {ret.value[k].note_name : k \in 1..7} = NoteName
        /\ ret.value[1].note_name = self_scale.start_note.note_name
        /\ \A k \in 2..7 : ret.value[k].note_name = (ret.value[k - 1].note_name % 7) + 1

\* a scale whose last degree had to be re-spelled, across the wrap from G to A
ScaleLettersWitness ==
    /\ pc = "get_scale"
    /\ self_scale = Scale(D_FLAT, IONIAN)
    /\ ret.value[4].note_name = NoteName_G
    /\ ret.value[5].note_name = NoteName_A
    /\ ret.value[5] # get_basic_scale(self_scale).value[5]

\* C2: every spelled degree of get_scale is equal, under Note equality, to the
\* naive degree of get_basic_scale at the same position.
ScaleDegreesKeepPitch ==
    pc = "get_scale" =>
        \A k \in 2..7 : Note_eq(ret.value[k], get_basic_scale(self_scale).value[k])

\* C3: the literal spellings of the scales of C, G# and C# in the Ionian mode.
ScaleLiteralSpellings ==
    pc = "get_scale" =>
        /\ self_scale = Scale(C, IONIAN) => ret.value = <<C, D, E, F, G, A, B>>
        /\ self_scale = Scale(G_SHARP, IONIAN) =>
              ret.value = <<G_SHARP, A_SHARP, B_SHARP, C_SHARP, D_SHARP, E_SHARP,
                            F_DOUBLE_SHARP>>
        /\ self_scale = Scale(C_SHARP, IONIAN) =>
              ret.value = <<C_SHARP, D_SHARP, E_SHARP, F_SHARP, G_SHARP, A_SHARP,
                            B_SHARP>>

\* get_scale has returned the scale of G#, which ends on F double-sharp
ScaleLiteralWitness ==
    /\ pc = "get_scale"
    /\ self_scale = Scale(G_SHARP, IONIAN)
    /\ ret.value[7] = Note(NoteName_F, DOUBLE_SHARP)

(***************************************************************************)
(* Properties of Note                                                      *)
(***************************************************************************)
\* C4: two Notes that compare equal have the same hash.
HashFollowsEq ==
    pc = "hash" => (Note_eq(note, other_note) => ret.hash_note = ret.hash_other_note)

\* C10: get_root_note is the case split natural -> same letter natural; flat ->
\* previous letter sharp (A wraps to G); sharp -> itself, or next letter natural
\* for B and E; double-sharp -> next letter natural (G wraps to A).
GetRootNoteCaseSplit ==
    pc = "get_root_note" =>
        LET l == note.note_name
            next == IF l = NoteName_G THEN NoteName_A ELSE l + 1
            prev == IF l = NoteName_A THEN NoteName_G ELSE l - 1
        IN  /\ note.accidental = NATURAL => ret = [note_name |-> l, accidental |-> NATURAL]
            /\ note.accidental = FLAT => ret = [note_name |-> prev, accidental |-> SHARP]
            /\ note.accidental = SHARP /\ l \in {NoteName_B, NoteName_E} =>
                  ret = [note_name |-> next, accidental |-> NATURAL]
            /\ note.accidental = SHARP /\ l \notin {NoteName_B, NoteName_E} => ret = note
            /\ note.accidental = DOUBLE_SHARP =>
                  ret = [note_name |-> next, accidental |-> NATURAL]
            /\ note = F_DOUBLE_SHARP => ret = G
            /\ note = D_FLAT => ret = C_SHARP
            /\ note = E_SHARP => ret = F
            /\ note = B_SHARP => ret = C

\* get_root_note has turned B sharp into C
GetRootNoteWitness ==
    /\ pc = "get_root_note"
    /\ note = B_SHARP
    /\ ret = C

(***************************************************************************)
(* Properties of Scale.get_transpose and Scale.transpose_notes_from        *)
(***************************************************************************)
\* C5: for two Scales of one Mode get_transpose returns a mapping of 7 entries
\* that sends degree i of self.get_scale() to degree i of other.get_scale();
\* from C Ionian to G# Ionian it is C->G#, D->A#, E->B#, F->C#, G->D#, A->E#, B->Fx.
TransposeMapsDegreeToDegree ==
    (pc = "get_transpose" /\ self_scale.scale_type = other_scale.scale_type) =>
        LET self_scale_order == get_scale(self_scale).value
            other_scale_order == get_scale(other_scale).value
        IN  /\ ret.status = "ok"
            /\ Len(ret.value) = 7
            /\ \A i \in 1..7 :
                  /\ dict_has(ret.value, self_scale_order[i])
                  /\ dict_get(ret.value, self_scale_order[i]) = other_scale_order[i]
            /\ (self_scale = Scale(C, IONIAN) /\ other_scale = Scale(G_SHARP, IONIAN)) =>
                  ret.value = << [key |-> C, value |-> G_SHARP],
                                 [key |-> D, value |-> A_SHARP],
                                 [key |-> E, value |-> B_SHARP],
                                 [key |-> F, value |-> C_SHARP],
                                 [key |-> G, value |-> D_SHARP],
                                 [key |-> A, value |-> E_SHARP],
                                 [key |-> B, value |-> F_DOUBLE_SHARP] >>

\* a mapping whose keys hold two Notes that compare equal (Bb and A#)
TransposeMapWitness ==
    /\ pc = "get_transpose"
    /\ self_scale = Scale(B_FLAT, AEOLIAN)
    /\ other_scale = Scale(C, AEOLIAN)
    /\ ret.status = "ok"
    /\ ret.value[1].key = B_FLAT
    /\ ret.value[7].key = A_SHARP

\* C6: for two Scales of one Mode transpose_notes_from returns as many Notes as
\* it was given; output i is start.get_note_n_steps_away(d) for the distance d
\* of input i from the original start, and lies d steps from the new start;
\* Scale(C).transpose_notes_from(Scale(G), [C, G, C#]) is [F, C, F#].
TransposeKeepsDistance ==
    (pc = "transpose_notes_from" /\ self_scale.scale_type = other_scale.scale_type) =>
        /\ ret.status = "ok"
        /\ Len(ret.value) = Len(notes)
        /\ \A i \in 1..Len(notes) :
              LET d == get_steps_from(other_scale.start_note, notes[i])
              IN  /\ d \in 0..11
                  /\ ret.value[i] = get_note_n_steps_away(self_scale.start_note, d)
                  /\ get_steps_from(self_scale.start_note, ret.value[i]) = d
        /\ (self_scale = Scale(C, IONIAN) /\ other_scale = Scale(G, IONIAN)
                /\ notes = <<C, G, C_SHARP>>) => ret.value = <<F, C, F_SHARP>>

\* the call of the test has returned
TransposeKeepsDistanceWitness ==
    /\ pc = "transpose_notes_from"
    /\ self_scale = Scale(C, IONIAN)
    /\ other_scale = Scale(G, IONIAN)
    /\ notes = TestNotes
    /\ ret = Ok(<<F, C, F_SHARP>>)

\* C7: every Note transpose_notes_from returns is literally one of the 12
\* entries of the Chromatic Ring, so its accidental is natural or sharp.
TransposeOutputOnRing ==
    (pc = "transpose_notes_from" /\ ret.status = "ok") =>
        \A i \in 1..Len(ret.value) :
            /\ ret.value[i].accidental \in {NATURAL, SHARP}
            /\ \E j \in 1..12 : get_alphabet_ordering[j] = ret.value[i]

\* a flat input, given to scales that start on flats, came back on the ring
TransposeOutputOnRingWitness ==
    /\ pc = "transpose_notes_from"
    /\ self_scale = Scale(D_FLAT, IONIAN)
    /\ other_scale = Scale(E_FLAT, IONIAN)
    /\ notes = <<E_FLAT>>
    /\ ret = Ok(<<C_SHARP>>)

\* C9: get_transpose and transpose_notes_from raise, and return nothing, when
\* the two Scales differ in Mode, and do not raise when the Modes are equal.
TransposeRejectsModeMismatch ==
    pc \in {"get_transpose", "transpose_notes_from"} =>
        IF self_scale.scale_type # other_scale.scale_type
        THEN ret.status = "ValueError" /\ DOMAIN ret = {"status"}
        ELSE ret.status = "ok"

\* transpose_notes_from has raised for an Ionian and an Aeolian scale
TransposeRejectsWitness ==
    /\ pc = "transpose_notes_from"
    /\ self_scale = Scale(C, IONIAN)
    /\ other_scale = Scale(A, AEOLIAN)
    /\ notes = TestNotes
    /\ ret.status = "ValueError"

(***************************************************************************)
(* Properties of TransposerHelper                                          *)
(***************************************************************************)
\* the number of measures of every part of a score
MeasureCounts(sc) == [p \in 1..Len(sc) |-> Len(sc[p].measures)]

\* the step and the accidental of every note of every measure of every part
NoteFields(sc) ==
    [p \in 1..Len(sc) |->
        [j \in 1..Len(sc[p].measures) |->
            [i \in 1..Len(sc[p].measures[j].notes) |->
                <<sc[p].measures[j].notes[i].step, sc[p].measures[j].notes[i].accidental>>]]]

\* C8: transpose_part and transpose_score leave the caller's part as it was:
\* its measures, and the step and accidental of every note, are unchanged.
TransposeLeavesInputAlone ==
    [][(TransposePart \/ TransposeScore) =>
          /\ MeasureCounts(score') = MeasureCounts(score)
          /\ NoteFields(score') = NoteFields(score)]_vars

(***************************************************************************)
(* Properties of canonicalization and of the lookups on the rings          *)
(***************************************************************************)
\* C11: canonicalization is idempotent: for every Note n the root of n's root
\* is equal, under Note equality, to n's root.
GetRootNoteIdempotent ==
    pc = "get_root_note" => Note_eq(get_root_note(ret), ret)

\* the root of C flat is B sharp, whose own root is the different Note C
GetRootNoteIdempotentWitness ==
    /\ pc = "get_root_note"
    /\ note = Note(NoteName_C, FLAT)
    /\ ret = B_SHARP
    /\ get_root_note(ret) = C
    /\ Note_eq(get_root_note(ret), ret)

\* C12: every Note is equal, under Note equality, to its own root.
RootEqualsNote ==
    pc = "get_root_note" => Note_eq(ret, note)

\* C13: on the Chromatic Ring, for every Note n and k in 0..12, going k steps
\* and then 12 - k steps from n gives a Note equal to n, and so do 12 steps.
StepsRoundTrip ==
    (pc = "get_note_n_steps_away" /\ notes = get_alphabet_ordering
        /\ ret.n \in 0..NOTES_IN_OCTAVE) =>
        /\ Note_eq(get_note_n_steps_away(ret.value, NOTES_IN_OCTAVE - ret.n), note)
        /\ (ret.n = NOTES_IN_OCTAVE => Note_eq(ret.value, note))

\* C14: on the Chromatic Ring a.get_steps_from(b) is in 0..11 and is the
\* forward distance from a to b: that many steps from a give a Note equal to b.
StepsFromIsForwardDistance ==
    (pc = "get_steps_from" /\ notes = get_alphabet_ordering) =>
        /\ ret.status = "ok"
        /\ ret.int \in 0..(NOTES_IN_OCTAVE - 1)
        /\ Note_eq(get_note_n_steps_away(note, ret.int), other_note)

\* C17: Notes that compare equal are interchangeable in the lookups on both
\* rings: whatever get_note_n_steps_away, get_steps_from (on either side) and
\* the Display Ring index return for a Note, they return for every Note equal
\* to it.
EqualNotesInterchangeable ==
    /\ pc = "get_note_n_steps_away" =>
          \A b \in AllNotes :
              Note_eq(note, b) => get_note_n_steps_away_in(b, ret.n, notes) = ret.value
    /\ pc = "get_steps_from" =>
          \A b \in AllNotes :
              /\ Note_eq(note, b) => OkIndex(get_steps_from_in(b, other_note, notes)) = ret
              /\ Note_eq(other_note, b) => OkIndex(get_steps_from_in(note, b, notes)) = ret
    /\ (pc = "get_scale_key_fifths" /\ note # None) =>
          \A b \in AllNotes :
              Note_eq(note, b) => OkIndex(get_scale_key_fifths(Scale(b, IONIAN))) = ret

\* the Display Ring index of D flat is that of C sharp, the entry before it
EqualNotesInterchangeableWitness ==
    /\ pc = "get_scale_key_fifths"
    /\ note = D_FLAT
    /\ ret = OkInt(1)
    /\ get_default_order[ret.int + 1] = C_SHARP
    /\ get_scale_key_fifths(Scale(C_SHARP, IONIAN)) = ret.int

\* the key_fifths of the first measure of the first part of a score
KeyFifthsOf(sc) == sc[1].measures[1].attributes.key_fifths

\* C18: for every f in 0..16 the scale read from a document whose key_fifths
\* is f has get_scale_key_fifths equal to f, the flat entries included.
FifthsRoundTrip ==
    (pc = "get_scale_key_fifths" /\ note = None /\ score \in FifthsScores
        /\ Len(score) = 1 /\ Len(score[1].measures) = 1
        /\ score[1].measures[1].attributes # None
        /\ KeyFifthsOf(score) \in 0..(Len(get_default_order) - 1)) =>
        ret = OkInt(KeyFifthsOf(score))

\* the letter k calls of get_next_note_name lead to, each on the Note of the
\* letter before and the accidental of n
RECURSIVE NextNoteNameTimes(_, _)
NextNoteNameTimes(n, k) ==
    IF k = 0 THEN n.note_name
    ELSE get_next_note_name(Note(NextNoteNameTimes(n, k - 1), n.accidental))

\* C19: get_next_note_name returns the cyclic successor of the letter:
\* ordinal + 1, G wrapping to A, whatever the accidental; 7 successors lead
\* back to the letter and fewer than 7 never do.
NextNoteNameIsCyclicSuccessor ==
    pc = "get_next_note_name" =>
        /\ ret.status = "ok"
        /\ ret.int \in NoteName
        /\ ret.int = (IF note.note_name = NoteName_G THEN NoteName_A ELSE note.note_name + 1)
        /\ \A acc \in NoteAccidental :
              get_next_note_name(Note(note.note_name, acc)) = ret.int
        /\ NextNoteNameTimes(note, 1) = ret.int
        /\ NextNoteNameTimes(note, NOTES_IN_SCALE) = note.note_name
        /\ \A k \in 1..(NOTES_IN_SCALE - 1) : NextNoteNameTimes(note, k) # note.note_name

\* the successor of G is A
NextNoteNameWitness ==
    /\ pc = "get_next_note_name"
    /\ note = G_FLAT
    /\ ret = OkInt(NoteName_A)

(***************************************************************************)
(* Properties of the scale formula                                         *)
(***************************************************************************)
\* C15 as stated: for every Mode the 7 entries of get_scale_formula sum to 12.
FormulaSumsToOctave ==
    pc = "get_scale_formula" =>
        /\ ret.status = "ok"
        /\ Len(ret.ints) = NOTES_IN_SCALE
        /\ sum_prefix(ret.ints, NOTES_IN_SCALE) = NOTES_IN_OCTAVE

\* C15 amended: the 7 entries of get_scale_formula, which start with 0 and
\* leave out the step back to the octave, sum to 11 for Ionian and to 10 for
\* Aeolian.
FormulaSumsBelowOctave ==
    pc = "get_scale_formula" =>
        /\ ret.status = "ok"
        /\ Len(ret.ints) = NOTES_IN_SCALE
        /\ ret.ints[1] = 0
        /\ self_scale.scale_type = IONIAN =>
              sum_prefix(ret.ints, NOTES_IN_SCALE) = NOTES_IN_OCTAVE - 1
        /\ self_scale.scale_type = AEOLIAN =>
              sum_prefix(ret.ints, NOTES_IN_SCALE) = NOTES_IN_OCTAVE - 2

\* the formula of the Aeolian scale of A, as the test reads it
FormulaSumsWitness ==
    /\ pc = "get_scale_formula"
    /\ self_scale = Scale(A, AEOLIAN)
    /\ ret = OkInts(Ok(<<0, 2, 1, 2, 2, 1, 2>>))

\* C16 as stated: get_scale_formula_cum_sum returns the 7 prefix sums of the
\* formula, and for every Mode the last of them is 10.
CumSumLastIsTen ==
    pc = "get_scale_formula_cum_sum" =>
        /\ ret.status = "ok"
        /\ Len(ret.ints) = NOTES_IN_SCALE
        /\ \A i \in 1..NOTES_IN_SCALE :
              ret.ints[i] = sum_prefix(get_scale_formula(self_scale).value, i)
        /\ ret.ints[NOTES_IN_SCALE] = 10

\* C16 amended: get_scale_formula_cum_sum returns the 7 prefix sums of the
\* formula; the last of them is 11 for Ionian and 10 for Aeolian.
CumSumLastByMode ==
    pc = "get_scale_formula_cum_sum" =>
        /\ ret.status = "ok"
        /\ Len(ret.ints) = NOTES_IN_SCALE
        /\ \A i \in 1..NOTES_IN_SCALE :
              ret.ints[i] = sum_prefix(get_scale_formula(self_scale).value, i)
        /\ self_scale.scale_type = IONIAN =>
              ret.ints = <<0, 2, 4, 5, 7, 9, 11>>
        /\ self_scale.scale_type = AEOLIAN =>
              ret.ints = <<0, 2, 3, 5, 7, 8, 10>>

\* the cumulative sums of an Ionian scale end on 11
CumSumWitness ==
    /\ pc = "get_scale_formula_cum_sum"
    /\ self_scale = Scale(G_SHARP, IONIAN)
    /\ ret.ints[NOTES_IN_SCALE] = 11

(***************************************************************************)
(* Properties of the calls with values outside the enums                   *)
(***************************************************************************)
\* C20: a Scale whose Mode is neither Ionian nor Aeolian raises in
\* get_scale_formula, and so in get_scale_formula_cum_sum, get_basic_scale,
\* get_scale and get_transpose, which return nothing; get_root_note, and so
\* equality, step navigation and distance, raise for a Note whose accidental
\* is none of the four.
InvalidValuesRaise ==
    /\ (pc \in {"get_scale_formula", "get_scale_formula_cum_sum", "get_basic_scale",
                 "get_scale"}
            /\ self_scale.scale_type \notin ScaleType) => ret = Raise
    /\ (pc = "get_transpose"
            /\ (self_scale.scale_type \notin ScaleType
                    \/ other_scale.scale_type \notin ScaleType)) => ret = Raise
    /\ (pc = "get_root_note" /\ note.accidental \notin NoteAccidental) =>
          ret = ValueError
    /\ (pc = "eq"
            /\ (note.accidental \notin NoteAccidental
                    \/ other_note.accidental \notin NoteAccidental)) => ret = Raise
    /\ (pc = "get_note_n_steps_away" /\ note.accidental \notin NoteAccidental) =>
          ret.value = ValueError
    /\ (pc = "get_steps_from"
            /\ (note.accidental \notin NoteAccidental
                    \/ other_note.accidental \notin NoteAccidental)) => ret = Raise

\* get_scale has raised for a scale_type outside the enum
InvalidValuesRaiseWitness ==
    /\ pc = "get_scale"
    /\ self_scale.scale_type \in InvalidScaleTypes
    /\ ret = Raise

(***************************************************************************)
(* Properties of the Chromatic Ring and of the canonical form              *)
(***************************************************************************)
\* C21: the Chromatic Ring has 12 entries, each natural or sharp, pairwise
\* unequal under Note equality; every Note is equal to exactly one of them, and
\* the index lookup of get_note_n_steps_away and get_steps_from never fails.
ChromaticRingCoversNotes ==
    /\ Len(get_alphabet_ordering) = NOTES_IN_OCTAVE
    /\ \A i \in 1..Len(get_alphabet_ordering) :
          /\ get_alphabet_ordering[i].accidental \in {NATURAL, SHARP}
          /\ \A j \in 1..Len(get_alphabet_ordering) :
                Note_eq(get_alphabet_ordering[i], get_alphabet_ordering[j]) => i = j
    /\ (pc = "get_note_n_steps_away" /\ notes = get_alphabet_ordering) =>
          /\ ret.value # ValueError
          /\ Cardinality({i \in 1..Len(notes) : Note_eq(notes[i], note)}) = 1
    /\ (pc = "get_steps_from" /\ notes = get_alphabet_ordering) =>
          /\ ret.status = "ok"
          /\ Cardinality({i \in 1..Len(notes) : Note_eq(notes[i], note)}) = 1
          /\ Cardinality({i \in 1..Len(notes) : Note_eq(notes[i], other_note)}) = 1

\* the semitone of each letter's natural pitch, by the ordinal of the letter
\* (A = 9, B = 11, C = 0, D = 2, E = 4, F = 5, G = 7)
NaturalSemitone == <<9, 11, 0, 2, 4, 5, 7>>

\* the semitones an accidental adds
AccidentalOffset(accidental) ==
    IF accidental = FLAT THEN -1
    ELSE IF accidental = NATURAL THEN 0
    ELSE IF accidental = SHARP THEN 1
    ELSE 2

\* the pitch class of a Note
PitchClass(n) ==
    (NaturalSemitone[n.note_name] + AccidentalOffset(n.accidental)) % NOTES_IN_OCTAVE

\* C22: get_root_note(n) has the pitch class of n, for every one of the 28
\* Notes, Cb, Fb, Bx and Ex included.
GetRootNoteKeepsPitchClass ==
    pc = "get_root_note" => PitchClass(ret) = PitchClass(note)

\* C23: for every Note n the pair (letter, accidental) of n.get_root_note() is
\* literally one of the 12 entries of the Chromatic Ring, so get_root_note
\* returns its own results unchanged, field by field.
GetRootNoteOnRing ==
    pc = "get_root_note" =>
        /\ \E j \in 1..Len(get_alphabet_ordering) : get_alphabet_ordering[j] = ret
        /\ ret.accidental = NATURAL
              \/ (ret.accidental = SHARP /\ ret.note_name \notin {NoteName_B, NoteName_E})
        /\ get_root_note(ret) = ret

(***************************************************************************)
(* Properties of the degrees of Scale.get_scale                            *)
(***************************************************************************)
\* C24: a degree of get_scale is a double-sharp only as F double-sharp after a
\* degree that is literally E sharp, or as C double-sharp after a degree that is
\* literally B sharp; after any other degree (a start Note E double-sharp or
\* B double-sharp too) the re-spelled degree has a single sharp.
DoubleSharpOnlyAfterLiteralSharp ==
    pc = "get_scale" =>
        \A k \in 2..NOTES_IN_SCALE :
            ret.value[k].accidental = DOUBLE_SHARP =>
                \/ ret.value[k] = F_DOUBLE_SHARP /\ ret.value[k - 1] = E_SHARP
                \/ ret.value[k] = C_DOUBLE_SHARP /\ ret.value[k - 1] = B_SHARP

\* C29: the 7 Notes of get_scale are pairwise unequal under Note equality, and
\* their forward distances from the start Note on the Chromatic Ring are the
\* cumulative offsets of the Mode (0,2,4,5,7,9,11 Ionian; 0,2,3,5,7,8,10 Aeolian).
ScaleDegreesAtCumulativeOffsets ==
    pc = "get_scale" =>
        /\ \A i, j \in 1..NOTES_IN_SCALE :
              Note_eq(ret.value[i], ret.value[j]) => i = j
        /\ \A k \in 1..NOTES_IN_SCALE :
              get_steps_from(self_scale.start_note, ret.value[k])
                  = get_scale_formula_cum_sum(self_scale).value[k]
        /\ self_scale.scale_type = IONIAN =>
              [k \in 1..NOTES_IN_SCALE |->
                  get_steps_from(self_scale.start_note, ret.value[k])]
                  = <<0, 2, 4, 5, 7, 9, 11>>
        /\ self_scale.scale_type = AEOLIAN =>
              [k \in 1..NOTES_IN_SCALE |->
                  get_steps_from(self_scale.start_note, ret.value[k])]
                  = <<0, 2, 3, 5, 7, 8, 10>>

(***************************************************************************)
(* Properties of the two routes of transposition                           *)
(***************************************************************************)
\* C28: for two Scales of one Mode and every degree d of self.get_scale(), the
\* Note get_transpose assigns to d is equal, under Note equality, to the one
\* Note other.transpose_notes_from(self, [d]) returns.
TransposeRoutesAgree ==
    (pc = "get_transpose" /\ ret.status = "ok") =>
        \A i \in 1..NOTES_IN_SCALE :
            Note_eq(dict_get(ret.value, get_scale(self_scale).value[i]),
                    transpose_notes_from(other_scale, self_scale,
                                         <<get_scale(self_scale).value[i]>>).value[1])

(***************************************************************************)
(* Properties of the transposition of documents                            *)
(***************************************************************************)
\* the original_scale a call works with when the caller holds other_scale
StartScale(sc, original_scale) ==
    IF original_scale = None THEN get_scale_from_score(sc) ELSE original_scale

\* the measures of a part, each replaced by what transpose_measure returns
TransposedMeasures(part, new_scale, original_scale) ==
    [j \in 1..Len(part.measures) |->
        transpose_measure(part.measures[j], new_scale, original_scale).value]

\* the parts of a score, each with its measures transposed
TransposedParts(sc, new_scale, original_scale) ==
    [p \in 1..Len(sc) |-> Part(TransposedMeasures(sc[p], new_scale, original_scale))]

\* the key_fifths of every measure of every part (None where there is none)
KeyFields(sc) ==
    [p \in 1..Len(sc) |->
        [j \in 1..Len(sc[p].measures) |-> sc[p].measures[j].attributes]]

\* C25: transpose_part returns a Part whose measure j is what transpose_measure
\* returns for measure j of the part it was given, in every note's step and
\* accidental and in key_fifths; transpose_score returns the score of these parts.
TransposeReturnsTransposed ==
    [][/\ (TransposePart /\ ret'.status = "ok") =>
              /\ NoteFields(<<ret'.value>>) =
                    NoteFields(<<Part(TransposedMeasures(score[notes'[1]], self_scale',
                                          StartScale(score, other_scale)))>>)
              /\ KeyFields(<<ret'.value>>) =
                    KeyFields(<<Part(TransposedMeasures(score[notes'[1]], self_scale',
                                         StartScale(score, other_scale)))>>)
       /\ (TransposeScore /\ ret'.status = "ok") =>
              /\ NoteFields(ret'.value.parts_list) =
                    NoteFields(TransposedParts(score, self_scale',
                                               StartScale(score, other_scale)))
              /\ KeyFields(ret'.value.parts_list) =
                    KeyFields(TransposedParts(score, self_scale',
                                              StartScale(score, other_scale)))]_vars

\* C26: every call of the loop of build_twinkles returns the notes of the
\* score as it was loaded, transposed from original_scale to the scale of that
\* call, whatever the calls before it were.
TwinklesIndependentOfEarlierCalls ==
    pc = "build_twinkles" =>
        NoteFields(ret.value.parts_list) =
            NoteFields(TransposedParts(sample_file, self_scale, other_scale))

\* C27: transpose_measure returns as many notes as it was given; the note at
\* position i has the transposed step and accidental of the note given at i
\* when that is a Pitch, and is the note given at i, unwritten, when that is a
\* Rest or an Unpitched.
TransposeMeasureKeepsPositions ==
    (pc = "transpose_measure" /\ ret.status = "ok") =>
        /\ Len(ret.value.notes) = Len(score[notes[1]].measures[notes[2]].notes)
        /\ \A i \in 1..Len(score[notes[1]].measures[notes[2]].notes) :
              IF score[notes[1]].measures[notes[2]].notes[i].kind = "pitch"
              THEN /\ ret.value.notes[i].kind = "pitch"
                   /\ Note(ret.value.notes[i].step, ret.value.notes[i].accidental) =
                         transpose_notes_from(
                             self_scale, StartScale(score, other_scale),
                             <<Note(score[notes[1]].measures[notes[2]].notes[i].step,
                                    score[notes[1]].measures[notes[2]].notes[i].accidental)>>
                         ).value[1]
              ELSE ret.value.notes[i] = score[notes[1]].measures[notes[2]].notes[i]

====
